---- MODULE Spec2Model ----
(***************************************************************************)
(* http_request.c: http_get(url) performs one blocking GET through a       *)
(* libcurl easy handle and returns the response code, or 0.                *)
(*                                                                         *)
(* Each statement of http_get is one action; pc is the position in the     *)
(* function.  libcurl is the environment: curl_easy_init may return NULL,  *)
(* curl_easy_perform is modelled as the transfer it runs (connect, status  *)
(* line, body chunks handed to the write callback, end of transfer).       *)
(***************************************************************************)
EXTENDS Integers, Sequences, FiniteSets

VARIABLES
    pc,         \* position in http_get; "start"/"returned" = not inside a call
    url,        \* argument of the current (or last) call
    http_code,  \* local long http_code
    curl,       \* local CURL *curl (NULL or a handle)
    res,        \* local CURLcode res
    ret,        \* value the last call returned to the caller (0 while a call runs)
    live,       \* libcurl: the handles created and not yet cleaned up
    opts,       \* libcurl: options of the handle (URL, WRITEFUNCTION, WRITEDATA)
    respCode,   \* libcurl: response code of the handle's last transfer (0 = none)
    net,        \* environment: how the network lets this transfer end
    chunks,     \* environment: body chunks handed to the write callback so far
    bytes,      \* environment: body bytes handed to the write callback so far
    acked,      \* bytes the write callback reported as processed
    stdout,     \* body bytes written to stdout (libcurl's default write function)
    stderr,     \* lines written to stderr since the current call was entered
    performs,   \* curl_easy_perform invocations since the current call was entered
    ops,        \* handle operations since the current call was entered
    ref         \* observation of one earlier completed call, kept for comparison

vars == <<pc, url, http_code, curl, res, ret, live, opts, respCode, net,
          chunks, bytes, acked, stdout, stderr, performs, ops, ref>>

----------------------------------------------------------------------------
(* Bounds of the model *)

MaxHandles == 2     \* handles libcurl can allocate before curl_easy_init fails
MaxChunks == 2      \* body chunks of one response
MaxNmemb == 2       \* largest nmemb of one chunk

(* Inputs *)

Urls == {"http://example.invalid/", "http://127.0.0.1:8080/"}
StatusCodes == {200, 204, 404, 500}
ChunkSizes == {1, 2}    \* the size argument of the write callback

NULL == 0
Handles == 1..MaxHandles

(* CURLcode values by name *)
CURLE_OK == "CURLE_OK"
CURLE_WRITE_ERROR == "CURLE_WRITE_ERROR"
CURLE_URL_MALFORMAT == "CURLE_URL_MALFORMAT"
\* failures before any response: malformed URL, DNS, connection refused, TLS
ConnectErrors == {CURLE_URL_MALFORMAT, "CURLE_COULDNT_RESOLVE_HOST",
                  "CURLE_COULDNT_CONNECT", "CURLE_SSL_CONNECT_ERROR"}
\* failures that can also end a transfer after the status line was received
TransferErrors == {"CURLE_OPERATION_TIMEDOUT"}
UNSET == "UNSET"        \* res before its assignment; net before the transfer

curl_easy_strerror(r) ==
    CASE r = CURLE_OK -> "No error"
      [] r = CURLE_URL_MALFORMAT -> "URL using bad/illegal format or missing URL"
      [] r = "CURLE_COULDNT_RESOLVE_HOST" -> "Couldn't resolve host name"
      [] r = "CURLE_COULDNT_CONNECT" -> "Couldn't connect to server"
      [] r = "CURLE_SSL_CONNECT_ERROR" -> "SSL connect error"
      [] r = "CURLE_OPERATION_TIMEDOUT" -> "Timeout was reached"
      [] r = CURLE_WRITE_ERROR -> "Failed writing received data to disk/application"
      [] OTHER -> "Unknown error"

\* options of a fresh handle: no URL, body written to stdout by fwrite
DefaultOpts == [url |-> "", writefunction |-> "fwrite", writedata |-> "stdout"]

NoRef == [valid |-> FALSE, url |-> "", obtained |-> FALSE, net |-> UNSET,
          code |-> 0, chunks |-> 0, bytes |-> 0, ret |-> 0, stderr |-> <<>>]

\* what the caller and the environment saw of the call that just returned
Observation ==
    [valid |-> TRUE, url |-> url, obtained |-> curl # NULL, net |-> net,
     code |-> respCode, chunks |-> chunks, bytes |-> bytes, ret |-> ret,
     stderr |-> stderr]

Op(name) == [op |-> name, h |-> curl, live |-> curl \in live]

----------------------------------------------------------------------------
(* write_data: the write callback *)

\* faulty variant: the multiplication by nmemb is forgotten
write_data_size(size, nmemb) == size

\* faulty variant: the callback reports that it processed nothing
write_data_zero(size, nmemb) == 0

\* lines 5-7: return size * nmemb.  The product is a size_t; libcurl hands
\* over at most one receive buffer per call, far below the width of size_t,
\* so the product of a delivered chunk does not wrap.

write_data(size, nmemb) == size * nmemb

----------------------------------------------------------------------------
Init ==
    /\ pc = "start"
    /\ url = ""
    /\ http_code = 0
    /\ curl = NULL
    /\ res = UNSET
    /\ ret = 0
    /\ live = {}
    /\ opts = DefaultOpts
    /\ respCode = 0
    /\ net = UNSET
    /\ chunks = 0
    /\ bytes = 0
    /\ acked = 0
    /\ stdout = 0
    /\ stderr = <<>>
    /\ performs = 0
    /\ ops = <<>>
    /\ ref = NoRef

\* the part of a call's entry that is not the code's: the observation windows
\* are cleared, and the call that just returned may be kept as the reference
EnterWindow ==
    /\ ref' \in (IF pc = "returned" THEN {ref, Observation} ELSE {ref})
    /\ ret' = 0
    /\ net' = UNSET
    /\ respCode' = 0
    /\ chunks' = 0
    /\ bytes' = 0
    /\ acked' = 0
    /\ stderr' = <<>>
    /\ performs' = 0
    /\ ops' = <<>>

\* faulty variant: long http_code declared static, so it keeps the last call's value
Enter_static(u) ==
    /\ pc \in {"start", "returned"}
    /\ pc' = "init"
    /\ url' = u
    /\ curl' = NULL
    /\ res' = UNSET
    /\ EnterWindow
    /\ UNCHANGED <<http_code, live, opts, stdout>>

\* lines 9-12: entry, long http_code = 0; curl and res declared
Enter(u) ==
    /\ pc \in {"start", "returned"}
    /\ pc' = "init"
    /\ url' = u
    /\ http_code' = 0
    /\ curl' = NULL
    /\ res' = UNSET
    /\ EnterWindow
    /\ UNCHANGED <<live, opts, stdout>>

\* line 14: curl = curl_easy_init(); NULL when libcurl cannot create a handle
EasyInit ==
    /\ pc = "init"
    /\ pc' = "if_curl"
    /\ \/ /\ curl' = NULL
          /\ UNCHANGED <<live, opts>>
       \/ /\ Handles \ live # {}
          /\ curl' = CHOOSE h \in Handles \ live : \A g \in Handles \ live : h <= g
          /\ live' = live \cup {curl'}
          /\ opts' = DefaultOpts
    /\ ops' = Append(ops, [op |-> "init", h |-> curl', live |-> curl' # NULL])
    /\ UNCHANGED <<url, http_code, res, ret, respCode, net, chunks, bytes,
                   acked, stdout, stderr, performs, ref>>

\* faulty variant: the if(curl) test is missing
IfCurl_unchecked ==
    /\ pc = "if_curl"
    /\ pc' = "setopt_url"
    /\ UNCHANGED <<url, http_code, curl, res, ret, live, opts, respCode, net,
                   chunks, bytes, acked, stdout, stderr, performs, ops, ref>>

\* line 15: if(curl)
IfCurl ==
    /\ pc = "if_curl"
    /\ pc' = IF curl # NULL THEN "setopt_url" ELSE "return"
    /\ UNCHANGED <<url, http_code, curl, res, ret, live, opts, respCode, net,
                   chunks, bytes, acked, stdout, stderr, performs, ops, ref>>

\* line 16: curl_easy_setopt(curl, CURLOPT_URL, url); the result is ignored,
\* and when libcurl cannot copy the string the handle keeps no URL
SetoptUrl ==
    /\ pc = "setopt_url"
    /\ pc' = "setopt_writefunction"
    /\ \E copied \in BOOLEAN :
          opts' = [opts EXCEPT !.url = IF copied THEN url ELSE ""]
    /\ ops' = Append(ops, Op("setopt_url"))
    /\ UNCHANGED <<url, http_code, curl, res, ret, live, respCode, net, chunks,
                   bytes, acked, stdout, stderr, performs, ref>>

\* faulty variant: the CURLOPT_WRITEFUNCTION line is missing
SetoptWriteFunction_missing ==
    /\ pc = "setopt_writefunction"
    /\ pc' = "setopt_writedata"
    /\ ops' = Append(ops, Op("setopt_writefunction"))
    /\ UNCHANGED <<url, http_code, curl, res, ret, live, opts, respCode, net,
                   chunks, bytes, acked, stdout, stderr, performs, ref>>

\* line 19: curl_easy_setopt(curl, CURLOPT_WRITEFUNCTION, write_data)
SetoptWriteFunction ==
    /\ pc = "setopt_writefunction"
    /\ pc' = "setopt_writedata"
    /\ opts' = [opts EXCEPT !.writefunction = "write_data"]
    /\ ops' = Append(ops, Op("setopt_writefunction"))
    /\ UNCHANGED <<url, http_code, curl, res, ret, live, respCode, net, chunks,
                   bytes, acked, stdout, stderr, performs, ref>>

\* line 20: curl_easy_setopt(curl, CURLOPT_WRITEDATA, NULL)
SetoptWriteData ==
    /\ pc = "setopt_writedata"
    /\ pc' = "perform"
    /\ opts' = [opts EXCEPT !.writedata = "NULL"]
    /\ ops' = Append(ops, Op("setopt_writedata"))
    /\ UNCHANGED <<url, http_code, curl, res, ret, live, respCode, net, chunks,
                   bytes, acked, stdout, stderr, performs, ref>>

\* line 22, res = curl_easy_perform(curl), first part: the request is issued.
\* Without a URL the transfer fails at once; otherwise the network decides
\* whether a response arrives and how the transfer will end.
PerformStart ==
    /\ pc = "perform"
    /\ performs' = performs + 1
    /\ ops' = Append(ops, Op("perform"))
    /\ \/ /\ opts.url = ""
          /\ net' = CURLE_URL_MALFORMAT
          /\ res' = CURLE_URL_MALFORMAT
          /\ pc' = "if_res"
          /\ UNCHANGED respCode
       \/ /\ opts.url # ""
          /\ \E e \in ConnectErrors :
                /\ net' = e
                /\ res' = e
          /\ pc' = "if_res"
          /\ UNCHANGED respCode
       \/ /\ opts.url # ""
          /\ net' \in {CURLE_OK} \cup TransferErrors
          /\ respCode' \in StatusCodes
          /\ pc' = "transfer"
          /\ UNCHANGED res
    /\ UNCHANGED <<url, http_code, curl, ret, live, opts, chunks, bytes, acked,
                   stdout, stderr, ref>>

\* line 22, inside curl_easy_perform: one chunk of the body is handed to the
\* write function; a return value other than the chunk's byte count aborts
\* the transfer with CURLE_WRITE_ERROR
DeliverChunk ==
    /\ pc = "transfer"
    /\ chunks < MaxChunks
    /\ \E size \in ChunkSizes, nmemb \in 0..MaxNmemb :
          LET n == size * nmemb
              wrote == IF opts.writefunction = "write_data"
                       THEN write_data(size, nmemb) ELSE n
          IN  /\ chunks' = chunks + 1
              /\ bytes' = bytes + n
              /\ acked' = acked + wrote
              /\ stdout' = IF opts.writefunction = "write_data"
                           THEN stdout ELSE stdout + n
              /\ IF wrote # n
                 THEN /\ res' = CURLE_WRITE_ERROR
                      /\ pc' = "if_res"
                 ELSE UNCHANGED <<res, pc>>
    /\ UNCHANGED <<url, http_code, curl, ret, live, opts, respCode, net, stderr,
                   performs, ops, ref>>

\* line 22, last part: the transfer ends as the network decided and
\* curl_easy_perform returns
PerformEnd ==
    /\ pc = "transfer"
    /\ res' = net
    /\ pc' = "if_res"
    /\ UNCHANGED <<url, http_code, curl, ret, live, opts, respCode, net, chunks,
                   bytes, acked, stdout, stderr, performs, ops, ref>>

\* faulty variant: the test is inverted
IfRes_inverted ==
    /\ pc = "if_res"
    /\ pc' = IF res = CURLE_OK THEN "fprintf" ELSE "getinfo"
    /\ UNCHANGED <<url, http_code, curl, res, ret, live, opts, respCode, net,
                   chunks, bytes, acked, stdout, stderr, performs, ops, ref>>

\* line 23: if(res != CURLE_OK) ... else ...
IfRes ==
    /\ pc = "if_res"
    /\ pc' = IF res # CURLE_OK THEN "fprintf" ELSE "getinfo"
    /\ UNCHANGED <<url, http_code, curl, res, ret, live, opts, respCode, net,
                   chunks, bytes, acked, stdout, stderr, performs, ops, ref>>

\* the line http_get writes on a failed transfer
Line(r) == <<"curl_easy_perform() failed: ", curl_easy_strerror(r), "\n">>

\* faulty variant: the else is missing, the response code is read after a failure too
Fprintf_noelse ==
    /\ pc = "fprintf"
    /\ pc' = "getinfo"
    /\ stderr' = Append(stderr, Line(res))
    /\ UNCHANGED <<url, http_code, curl, res, ret, live, opts, respCode, net,
                   chunks, bytes, acked, stdout, performs, ops, ref>>

\* faulty variant: the failure branch returns early, without curl_easy_cleanup
Fprintf_leak ==
    /\ pc = "fprintf"
    /\ pc' = "return"
    /\ stderr' = Append(stderr, Line(res))
    /\ UNCHANGED <<url, http_code, curl, res, ret, live, opts, respCode, net,
                   chunks, bytes, acked, stdout, performs, ops, ref>>

\* faulty variant: a failed transfer is tried once more
Fprintf_retry ==
    /\ pc = "fprintf"
    /\ pc' = IF performs < 2 THEN "perform" ELSE "cleanup"
    /\ stderr' = Append(stderr, Line(res))
    /\ UNCHANGED <<url, http_code, curl, res, ret, live, opts, respCode, net,
                   chunks, bytes, acked, stdout, performs, ops, ref>>

\* line 24: fprintf(stderr, "curl_easy_perform() failed: %s\n", ...)
Fprintf ==
    /\ pc = "fprintf"
    /\ pc' = "cleanup"
    /\ stderr' = Append(stderr, Line(res))
    /\ UNCHANGED <<url, http_code, curl, res, ret, live, opts, respCode, net,
                   chunks, bytes, acked, stdout, performs, ops, ref>>

\* faulty variant: the response code is asked for but not stored in http_code
Getinfo_dropped ==
    /\ pc = "getinfo"
    /\ pc' = "cleanup"
    /\ ops' = Append(ops, Op("getinfo"))
    /\ UNCHANGED <<url, http_code, curl, res, ret, live, opts, respCode, net,
                   chunks, bytes, acked, stdout, stderr, performs, ref>>

\* line 26: curl_easy_getinfo(curl, CURLINFO_RESPONSE_CODE, &http_code)
Getinfo ==
    /\ pc = "getinfo"
    /\ pc' = "cleanup"
    /\ http_code' = respCode
    /\ ops' = Append(ops, Op("getinfo"))
    /\ UNCHANGED <<url, curl, res, ret, live, opts, respCode, net, chunks, bytes,
                   acked, stdout, stderr, performs, ref>>

\* line 27: curl_easy_cleanup(curl); the handle's options go with it
Cleanup ==
    /\ pc = "cleanup"
    /\ pc' = "return"
    /\ live' = live \ {curl}
    /\ opts' = DefaultOpts
    /\ ops' = Append(ops, Op("cleanup"))
    /\ UNCHANGED <<url, http_code, curl, res, ret, respCode, net, chunks,
                   bytes, acked, stdout, stderr, performs, ref>>

\* line 29: return http_code
Return ==
    /\ pc = "return"
    /\ pc' = "returned"
    /\ ret' = http_code
    /\ UNCHANGED <<url, http_code, curl, res, live, opts, respCode, net, chunks,
                   bytes, acked, stdout, stderr, performs, ops, ref>>

\* a caller invokes http_get with some url
Call == \E u \in Urls : Enter(u)

Next ==
    \/ Call
    \/ EasyInit
    \/ IfCurl
    \/ SetoptUrl
    \/ SetoptWriteFunction
    \/ SetoptWriteData
    \/ PerformStart
    \/ DeliverChunk
    \/ PerformEnd
    \/ IfRes
    \/ Fprintf
    \/ Getinfo
    \/ Cleanup
    \/ Return

Spec == Init /\ [][Next]_vars

----------------------------------------------------------------------------
TypeOK ==
    /\ pc \in {"start", "init", "if_curl", "setopt_url", "setopt_writefunction",
               "setopt_writedata", "perform", "transfer", "if_res", "fprintf",
               "getinfo", "cleanup", "return", "returned"}
    /\ curl \in {NULL} \cup Handles
    /\ live \subseteq Handles
    /\ http_code \in {0} \cup StatusCodes
    /\ ret \in {0} \cup StatusCodes

----------------------------------------------------------------------------
(* Properties *)

Returned == pc = "returned"         \* a call has returned and none is running
Obtained == curl # NULL             \* curl_easy_init gave the call a handle
\* the request of the call that returned could not be completed
Failed == ~Obtained \/ res # CURLE_OK \/ net # CURLE_OK

OpNames == [i \in 1..Len(ops) |-> ops[i].op]
Count(name) == Cardinality({i \in 1..Len(ops) : ops[i].op = name})
IsPrefix(s, t) == Len(s) <= Len(t) /\ \A i \in 1..Len(s) : s[i] = t[i]

FailureOps == <<"init", "setopt_url", "setopt_writefunction", "setopt_writedata",
                "perform", "cleanup">>
SuccessOps == <<"init", "setopt_url", "setopt_writefunction", "setopt_writedata",
                "perform", "getinfo", "cleanup">>

\* the reference call and the call that just returned met the same outcome:
\* handle obtained or not, same end of transfer, same status code from the server
SameOutcome ==
    /\ ref.valid
    /\ ref.obtained = Obtained
    /\ ref.net = net
    /\ ref.code = respCode

\* C1: a call that obtained its handle and whose transfer succeeded returns
\* exactly the status code the server sent.
C1_ReturnsServerStatus ==
    (Returned /\ Obtained /\ res = CURLE_OK)
        => (ret = respCode /\ ret \in StatusCodes)

C1_Witness ==
    /\ Returned /\ Obtained /\ res = CURLE_OK
    /\ respCode = 404 /\ ret = 404 /\ bytes > 0

\* C2: a call whose request could not be completed, for whatever cause
\* (no handle, malformed URL, DNS, connect, TLS, timeout), returns 0.
C2_FailureReturnsZero ==
    (Returned /\ Failed) => ret = 0

C2_Witness ==
    /\ Returned /\ Obtained
    /\ res = "CURLE_OPERATION_TIMEDOUT" /\ respCode = 500 /\ chunks > 0
    /\ ret = 0

\* C3: when no call is running no handle is live, and a call that returned
\* released as many handles as it acquired.
C3_HandleReleased ==
    /\ pc \in {"start", "return", "returned"} => live = {}
    /\ Returned =>
          Cardinality({i \in 1..Len(ops) : ops[i].op = "init" /\ ops[i].h # NULL})
              = Count("cleanup")

C3_Witness ==
    /\ Returned /\ Obtained /\ res # CURLE_OK /\ Count("cleanup") = 1
    /\ ref.valid /\ ref.obtained /\ ref.net = CURLE_OK /\ ref.url # url
    /\ live = {}

\* C4: every call that ends in failure has written exactly one line, naming
\* the failure reason, to stderr when it returns.
C4_FailureWritesOneLine ==
    (Returned /\ Failed) => (Len(stderr) = 1 /\ stderr[1] = Line(res))

\* what holds instead: the line is written exactly when curl_easy_perform failed
C4_PerformFailureWritesOneLine ==
    Returned =>
        /\ (Obtained /\ res # CURLE_OK) => stderr = <<Line(res)>>
        /\ (~Obtained \/ res = CURLE_OK) => stderr = <<>>

\* C5: two calls that met the same outcome and the same status code return
\* the same value, whatever bodies they received.
C5_BodyIndependent ==
    (Returned /\ SameOutcome) => ret = ref.ret

C5_Witness ==
    /\ Returned /\ SameOutcome /\ net = CURLE_OK /\ respCode = 200
    /\ ref.bytes # bytes /\ ref.chunks # chunks
    /\ ret = 200 /\ ref.ret = 200

\* C6: a call invokes curl_easy_perform at most once, also after a failure.
C6_SingleAttempt ==
    /\ performs <= 1
    /\ Count("perform") = performs
    /\ (Returned /\ Obtained) => performs = 1

C6_Witness ==
    /\ Returned /\ Obtained /\ res = "CURLE_COULDNT_CONNECT"
    /\ performs = 1 /\ ret = 0

\* C7: the result of a call (value returned, lines written) is the same as
\* that of any earlier call with the same url and the same outcome, whatever
\* calls lay between them; and between calls nothing of a call is left in
\* the library.
C7_CallsIndependent ==
    /\ (Returned /\ SameOutcome /\ ref.url = url)
          => (ret = ref.ret /\ stderr = ref.stderr)
    /\ pc \in {"start", "returned"} => (live = {} /\ opts = DefaultOpts)

C7_Witness ==
    /\ Returned /\ SameOutcome /\ ref.url = url
    /\ Obtained /\ res = "CURLE_OPERATION_TIMEDOUT" /\ respCode = 404
    /\ ret = 0 /\ Len(stderr) = 1

\* C8: the write callback acknowledges every chunk in full, so it never aborts
\* a transfer, and no byte of the body is written anywhere.
C8_BodyAcknowledgedAndDiscarded ==
    /\ acked = bytes
    /\ res # CURLE_WRITE_ERROR
    /\ stdout = 0
    /\ (Returned /\ Obtained /\ net = CURLE_OK) => res = CURLE_OK

C8_Witness ==
    /\ Returned /\ res = CURLE_OK
    /\ chunks >= 2 /\ bytes >= 4 /\ acked = bytes

\* C9: a nonzero value is returned only when the handle was obtained and
\* curl_easy_perform returned CURLE_OK, and it is the response code; without a
\* handle or after a failed perform http_code is still 0.
C9_NonzeroOnlyOnSuccess ==
    /\ (Returned /\ ret # 0)
          => (Obtained /\ res = CURLE_OK /\ ret = respCode)
    /\ (pc # "start" /\ (~Obtained \/ res \notin {UNSET, CURLE_OK}))
          => http_code = 0

C9_Witness ==
    /\ Returned /\ ret = 500 /\ res = CURLE_OK /\ Obtained

\* C10: the operations on the handle follow the order init, setopt (URL, write
\* function, write data), perform, getinfo only after CURLE_OK, cleanup; every
\* operation after init is applied to a handle that is not NULL and is live;
\* cleanup happens at most once.
C10_HandleProtocol ==
    /\ IsPrefix(OpNames, SuccessOps) \/ IsPrefix(OpNames, FailureOps)
    /\ Count("getinfo") > 0 => res = CURLE_OK
    /\ (Count("cleanup") > 0 /\ res = CURLE_OK) => Count("getinfo") = 1
    /\ \A i \in 2..Len(ops) : ops[i].h # NULL /\ ops[i].live
    /\ (Len(ops) > 0 /\ ops[1].h = NULL) => Len(ops) = 1
    /\ Count("cleanup") <= 1

C10_Witness ==
    /\ Returned /\ OpNames = SuccessOps

C10_WitnessNoHandle ==
    /\ Returned /\ ~Obtained /\ Len(ops) = 1

====
